---- MODULE Spec2Model ----
(***************************************************************************)
(* Model of src/main.py: the two mesh loaders (load_from_open3d,           *)
(* load_from_trimesh), create_mesh and main.                               *)
(*                                                                         *)
(* Numbers.  Array elements are drawn from values that a 32-bit float      *)
(* holds exactly, so a cast keeps the value and changes the dtype tag.     *)
(* UV components are fixed-point tenths: UVOne stands for 1.0, 3 for 0.3,  *)
(* 8 for 0.8.  Texture samples are 8-bit integers; a normalised sample is  *)
(* kept as the fraction [num, den].                                        *)
(*                                                                         *)
(* Python values.  Every object is a record with a "kind" field; None is   *)
(* the record of kind "None".  Sequences are 1-based here and 0-based in   *)
(* the source, hence the +1 at every subscript.                            *)
(***************************************************************************)
EXTENDS Integers, Sequences, FiniteSets, TLC

VARIABLES
    pc,             \* position in main / create_mesh / the running loader
    err,            \* the exception that left main, or None
    loader,         \* create_mesh's loader argument
    calls,          \* how many times each loader has been called
    png,            \* the sibling data/cube.png on disk: PngAbsent or its samples
    o3d_model,      \* load_from_open3d locals
    o3d_mesh_info,
    o3d_material,
    t_mesh,         \* load_from_trimesh locals
    uvs,
    t_geo,
    im,
    material,
    gfx_geometry,   \* create_mesh locals (and load_from_open3d's of the same name)
    gfx_material,
    o3d_obj,        \* main's o3d_mesh
    t_obj,          \* main's t_mesh
    decoded,        \* the vertex arrays the two decoders delivered
    out,            \* what main printed
    scene,          \* children of the scene, in order
    shown           \* disp.show(scene) was reached

vars == <<pc, err, loader, calls, png, o3d_model, o3d_mesh_info, o3d_material,
          t_mesh, uvs, t_geo, im, material, gfx_geometry, gfx_material,
          o3d_obj, t_obj, decoded, out, scene, shown>>

-----------------------------------------------------------------------------
(* Bounds of the enumerated inputs *)

MaxVerts == 2
MaxTris == 1
MaxMeshes == 2
MaxMaterials == 2

(* Program constants *)

UVOne == 10
SampleMax == 255
up_scale_ratio == 100
XOffset == 200

-----------------------------------------------------------------------------
(* Python values *)

None == [kind |-> "None"]

Exception(k, line) == [kind |-> "Exception", type |-> k, line |-> line]

Range(s) == {s[i] : i \in 1..Len(s)}

Window(list, s, k) == [j \in 1..k |-> list[((s + j - 2) % Len(list)) + 1]]

Windows(list, k) == IF k = 0 THEN {<<>>} ELSE {Window(list, s, k) : s \in 1..Len(list)}

-----------------------------------------------------------------------------
(* What the decoders can deliver *)

PointList == << <<0, 0, 0>>, <<1, 0, 0>> >>

UVList == << <<3, 8>>, <<0, 0>>, <<10, 10>> >>

NormalVec == <<0, 0, 1>>

VertexArrays(n) == Windows(PointList, n)

TriList(n) == [i \in 1..n |-> <<i - 1, i % n, (i + 1) % n>>]

TriangleArrays(n) ==
    IF n = 0 THEN {<<>>}
    ELSE UNION {Windows(TriList(n), k) : k \in 0..MaxTris}

NormalArrays(n) == {<<>>, [i \in 1..n |-> NormalVec]}

TriangleUVArrays(t) == {<<>>} \cup (IF t = 0 THEN {} ELSE Windows(UVList, 3 * t))

TriangleMesh(v, nm, t, uv) ==
    [kind |-> "TriangleMesh", vertices |-> v, vertex_normals |-> nm,
     vertex_colors |-> <<>>, triangles |-> t, triangle_uvs |-> uv]

O3dTriangleMeshes ==
    UNION {UNION {UNION {{TriangleMesh(v, nm, t, uv) :
                              uv \in TriangleUVArrays(Len(t)), nm \in NormalArrays(Len(v))} :
                         t \in TriangleArrays(Len(v))} :
                  v \in VertexArrays(n)} :
           n \in 0..MaxVerts}

MeshInfo(m, idx) == [kind |-> "MeshInfo", mesh |-> m, material_idx |-> idx]

MaterialRecord(img) == [kind |-> "MaterialRecord", albedo_img |-> img]

AlbedoImages == {<<0>>, <<255>>}

MaterialArrays ==
    UNION {[1..n -> {MaterialRecord(img) : img \in AlbedoImages}] : n \in 0..MaxMaterials}

FirstMeshInfos ==
    {MeshInfo(m, idx) : m \in O3dTriangleMeshes, idx \in 0..(MaxMaterials - 1)}

OtherMeshInfos ==
    {MeshInfo(TriangleMesh(<<>>, <<>>, <<>>, <<>>), 0),
     MeshInfo(TriangleMesh(<<PointList[2]>>, <<>>, <<>>, <<>>), MaxMaterials)}

OtherMeshArrays == UNION {[1..n -> OtherMeshInfos] : n \in 0..(MaxMeshes - 1)}

TriangleMeshModel(ms, mats) ==
    [kind |-> "TriangleMeshModel", meshes |-> ms, materials |-> mats]

TriangleMeshModels ==
    {TriangleMeshModel(<<>>, mats) : mats \in MaterialArrays}
    \cup {TriangleMeshModel(<<first>> \o rest, mats) :
              first \in FirstMeshInfos, rest \in OtherMeshArrays, mats \in MaterialArrays}

Trimesh(v, f, visual) ==
    [kind |-> "Trimesh", vertices |-> v, faces |-> f,
     vertex_normals |-> [i \in 1..Len(v) |-> NormalVec], visual |-> visual]

TextureVisuals(uv) == [kind |-> "texture", uv |-> uv]

ColorVisuals == [kind |-> "vertex"]

Visuals(n) == {ColorVisuals} \cup {TextureVisuals(uv) : uv \in Windows(UVList, n)}

Trimeshes ==
    UNION {UNION {{Trimesh(v, f, vis) : f \in TriangleArrays(n), vis \in Visuals(n)} :
                  v \in VertexArrays(n)} :
           n \in 1..MaxVerts}

PngAbsent == [kind |-> "absent"]

PngFiles == {PngAbsent, [kind |-> "file", samples |-> <<0, 255>>]}

-----------------------------------------------------------------------------
(* numpy *)

\* np.array(seq, dtype=dtype).  The decoders deliver values the target type
\* holds exactly (floats on the 32-bit grid, vertex ids in 0..2^31-1), so the
\* cast keeps every element, row and position and sets the dtype.
NpArray(seq, dtype) ==
    [kind |-> "ndarray", dtype |-> dtype,
     data |-> [i \in 1..Len(seq) |-> [j \in 1..Len(seq[i]) |-> seq[i][j]]]]

NormalizeSample(s) == [num |-> s, den |-> SampleMax]

NormalizeImage(samples) == [i \in 1..Len(samples) |-> NormalizeSample(samples[i])]

-----------------------------------------------------------------------------
(* pygfx objects *)

Geometry(indices, positions, normals, texcoords) ==
    [kind |-> "Geometry", indices |-> indices, positions |-> positions,
     normals |-> normals, texcoords |-> texcoords]

Texture(data) == [kind |-> "Texture", data |-> data, dim |-> 2]

MeshBasicMaterial(map, interpolation, side) ==
    [kind |-> "MeshBasicMaterial", flat_shading |-> FALSE,
     map_interpolation |-> interpolation, side |-> side, map |-> map]

Mesh(g, m) ==
    [kind |-> "Mesh", geometry |-> g, material |-> m, scale |-> <<1, 1, 1>>, x |-> 0]

LoaderResult(g, m) == [kind |-> "LoaderResult", geometry |-> g, material |-> m]

-----------------------------------------------------------------------------
(* load_from_open3d *)

\* the last entry instead of entry 0
SelectLastMeshInfo(model) == model.meshes[Len(model.meshes)]

\* o3d_model.meshes[0]
SelectMeshInfo(model) == model.meshes[0 + 1]

\* o3d_model.materials[o3d_mesh_info.material_idx]
SelectMaterial(model, info) == model.materials[info.material_idx + 1]

HasMeshInfo(model) == Len(model.meshes) > 0

HasMaterial(model, info) == info.material_idx < Len(model.materials)

\* the row with the fix-up left out
KeepUV(uv) == <<uv[1], uv[2]>>

\* one row of triangle_uvs * np.array([1, -1]) + np.array([0, 1])
FlipUV(uv) == <<uv[1] * 1 + 0, uv[2] * (-1) + UVOne>>

\* (triangle_uvs * np.array([1, -1]) + np.array([0, 1])).astype(np.float32)
TriangleUvsWgpu(triangle_uvs) ==
    NpArray([i \in 1..Len(triangle_uvs.data) |-> FlipUV(triangle_uvs.data[i])], "float32")

\* vertex ids taken 1-based, as an .obj file writes them
O3dGeometryOneBased(o3d_mesh) ==
    Geometry(NpArray([i \in 1..Len(o3d_mesh.triangles) |->
                         [j \in 1..3 |-> o3d_mesh.triangles[i][j] + 1]], "uint32"),
             NpArray(o3d_mesh.vertices, "float32"),
             NpArray(o3d_mesh.vertex_normals, "float32"),
             TriangleUvsWgpu(NpArray(o3d_mesh.triangle_uvs, "float32")))

\* the last vertex left out of positions
O3dGeometryShort(o3d_mesh) ==
    Geometry(NpArray(o3d_mesh.triangles, "uint32"),
             NpArray(SubSeq(o3d_mesh.vertices, 1, Len(o3d_mesh.vertices) - 1), "float32"),
             NpArray(o3d_mesh.vertex_normals, "float32"),
             TriangleUvsWgpu(NpArray(o3d_mesh.triangle_uvs, "float32")))

O3dGeometry(o3d_mesh) ==
    LET triangle_uvs   == NpArray(o3d_mesh.triangle_uvs, "float32")
        triangles      == NpArray(o3d_mesh.triangles, "uint32")
        vertex_normals == NpArray(o3d_mesh.vertex_normals, "float32")
        vertices       == NpArray(o3d_mesh.vertices, "float32")
        triangle_uvs_wgpu == TriangleUvsWgpu(triangle_uvs)
    IN  Geometry(triangles, vertices, vertex_normals, triangle_uvs_wgpu)

O3dMaterial(mat) ==
    MeshBasicMaterial(Texture(NormalizeImage(mat.albedo_img)), "linear", "FRONT")

\* the whole call, as a function of what read_triangle_model delivered
LoadFromOpen3d(model) ==
    IF ~HasMeshInfo(model) THEN Exception("IndexError", 33)
    ELSE IF ~HasMaterial(model, SelectMeshInfo(model)) THEN Exception("IndexError", 35)
    ELSE LoaderResult(O3dGeometry(SelectMeshInfo(model).mesh),
                      O3dMaterial(SelectMaterial(model, SelectMeshInfo(model))))

-----------------------------------------------------------------------------
(* load_from_trimesh *)

\* np.array(t_mesh.visual.uv, np.float32)
TrimeshUvs(mesh) == NpArray(mesh.visual.uv, "float32")

\* gfx.geometry_from_trimesh(t_mesh): vertices, faces and vertex normals are
\* copied; the UV array is copied as it is or with v replaced by 1 - v,
\* depending on the pygfx release (flip).
GeometryFromTrimesh(mesh, flip) ==
    Geometry(NpArray(mesh.faces, "int32"),
             NpArray(mesh.vertices, "float32"),
             NpArray(mesh.vertex_normals, "float32"),
             IF mesh.visual.kind = "texture"
             THEN IF flip THEN TriangleUvsWgpu(NpArray(mesh.visual.uv, "float32"))
                  ELSE NpArray(mesh.visual.uv, "float32")
             ELSE None)

\* iio.v3.imread(texture_path).astype("float32") / 255
ReadTexture(file) == NormalizeImage(file.samples)

TrimeshMaterial(image) == MeshBasicMaterial(Texture(image), "linear", "BOTH")

-----------------------------------------------------------------------------
(* create_mesh *)

CreateMesh(g, m) ==
    [Mesh(g, m) EXCEPT !.scale = <<up_scale_ratio, up_scale_ratio, up_scale_ratio>>]

Shape(arr) == <<Len(arr.data), 2>>

-----------------------------------------------------------------------------
(* The program *)

Init ==
    /\ pc = "main84"
    /\ err = None
    /\ loader = None
    /\ calls = [open3d |-> 0, trimesh |-> 0]
    /\ png \in PngFiles
    /\ o3d_model = None
    /\ o3d_mesh_info = None
    /\ o3d_material = None
    /\ t_mesh = None
    /\ uvs = None
    /\ t_geo = None
    /\ im = None
    /\ material = None
    /\ gfx_geometry = None
    /\ gfx_material = None
    /\ o3d_obj = None
    /\ t_obj = None
    /\ decoded = [open3d |-> None, trimesh |-> None]
    /\ out = <<>>
    /\ scene = <<>>
    /\ shown = FALSE

\* the exception caught in main, which goes on with the next statement
RaiseCaught(k, line) ==
    /\ pc' = (IF loader.name = "open3d" THEN "main87" ELSE "main90")
    /\ err' = Exception(k, line)

\* An exception nobody catches: it leaves the loader, create_mesh and main.
Raise(k, line) ==
    /\ pc' = "raised"
    /\ err' = Exception(k, line)

MainVars == <<o3d_obj, t_obj, out, scene, shown>>
O3dLocals == <<o3d_model, o3d_mesh_info, o3d_material>>
TmLocals == <<t_mesh, uvs, t_geo, im, material>>
CmLocals == <<gfx_geometry, gfx_material>>

\* main, line 84: create_mesh(object_path, load_from_open3d)
Main_84 ==
    /\ pc = "main84"
    /\ loader' = [kind |-> "loader", name |-> "open3d"]
    /\ calls' = [calls EXCEPT !.open3d = @ + 1]
    /\ pc' = "o3d32"
    /\ UNCHANGED <<err, png, O3dLocals, TmLocals, CmLocals, MainVars, decoded>>

\* line 32: io.read_triangle_model(path)
O3d_32 ==
    /\ pc = "o3d32"
    /\ \E model \in TriangleMeshModels : o3d_model' = model
    /\ pc' = "o3d33"
    /\ UNCHANGED <<err, loader, calls, png, o3d_mesh_info, o3d_material,
                   TmLocals, CmLocals, MainVars, decoded>>

\* lines 33-34: o3d_model.meshes[0] and its mesh
O3d_33 ==
    /\ pc = "o3d33"
    /\ \/ /\ ~HasMeshInfo(o3d_model)
          /\ Raise("IndexError", 33)
          /\ UNCHANGED <<o3d_mesh_info, decoded>>
       \/ /\ HasMeshInfo(o3d_model)
          /\ o3d_mesh_info' = SelectMeshInfo(o3d_model)
          /\ decoded' = [decoded EXCEPT !.open3d =
                            [kind |-> "vertices",
                             data |-> SelectMeshInfo(o3d_model).mesh.vertices]]
          /\ pc' = "o3d35"
          /\ err' = err
    /\ UNCHANGED <<loader, calls, png, o3d_model, o3d_material,
                   TmLocals, CmLocals, MainVars>>

\* line 35 with a missing material read as None instead of raising
O3d_35_Unchecked ==
    /\ pc = "o3d35"
    /\ o3d_material' = IF HasMaterial(o3d_model, o3d_mesh_info)
                       THEN SelectMaterial(o3d_model, o3d_mesh_info)
                       ELSE None
    /\ pc' = "o3d43"
    /\ UNCHANGED <<err, loader, calls, png, o3d_model, o3d_mesh_info,
                   TmLocals, CmLocals, MainVars, decoded>>

\* line 35: o3d_model.materials[o3d_mesh_info.material_idx]
O3d_35 ==
    /\ pc = "o3d35"
    /\ \/ /\ ~HasMaterial(o3d_model, o3d_mesh_info)
          /\ Raise("IndexError", 35)
          /\ UNCHANGED o3d_material
       \/ /\ HasMaterial(o3d_model, o3d_mesh_info)
          /\ o3d_material' = SelectMaterial(o3d_model, o3d_mesh_info)
          /\ pc' = "o3d43"
          /\ err' = err
    /\ UNCHANGED <<loader, calls, png, o3d_model, o3d_mesh_info,
                   TmLocals, CmLocals, MainVars, decoded>>

\* lines 43-53: the arrays and gfx.Geometry
O3d_43 ==
    /\ pc = "o3d43"
    /\ gfx_geometry' = O3dGeometry(o3d_mesh_info.mesh)
    /\ pc' = "o3d56"
    /\ UNCHANGED <<err, loader, calls, png, O3dLocals, TmLocals, gfx_material,
                   MainVars, decoded>>

\* lines 56-64: the material and its texture
O3d_56 ==
    /\ pc = "o3d56"
    /\ gfx_material' = O3dMaterial(o3d_material)
    /\ pc' = "o3d66"
    /\ UNCHANGED <<err, loader, calls, png, O3dLocals, TmLocals, gfx_geometry,
                   MainVars, decoded>>

\* line 66, into line 70: return gfx_geometry, gfx_material
O3d_66 ==
    /\ pc = "o3d66"
    /\ o3d_model' = None
    /\ o3d_mesh_info' = None
    /\ o3d_material' = None
    /\ pc' = "cm71"
    /\ UNCHANGED <<err, loader, calls, png, TmLocals, CmLocals, MainVars, decoded>>

\* main, line 87: create_mesh(object_path, load_from_trimesh)
Main_87 ==
    /\ pc = "main87"
    /\ loader' = [kind |-> "loader", name |-> "trimesh"]
    /\ calls' = [calls EXCEPT !.trimesh = @ + 1]
    /\ pc' = "tm18"
    /\ UNCHANGED <<err, png, O3dLocals, TmLocals, CmLocals, MainVars, decoded>>

\* line 18: trimesh.load(path)
Tm_18 ==
    /\ pc = "tm18"
    /\ \/ /\ Raise("ValueError", 18)
          /\ UNCHANGED <<t_mesh, decoded>>
       \/ /\ \E mesh \in Trimeshes :
                /\ t_mesh' = mesh
                /\ decoded' = [decoded EXCEPT !.trimesh =
                                  [kind |-> "vertices", data |-> mesh.vertices]]
          /\ pc' = "tm19"
          /\ err' = err
    /\ UNCHANGED <<loader, calls, png, O3dLocals, uvs, t_geo, im, material,
                   CmLocals, MainVars>>

\* line 19: np.array(t_mesh.visual.uv, np.float32)
Tm_19 ==
    /\ pc = "tm19"
    /\ \/ /\ t_mesh.visual.kind # "texture"
          /\ Raise("AttributeError", 19)
          /\ UNCHANGED uvs
       \/ /\ t_mesh.visual.kind = "texture"
          /\ uvs' = TrimeshUvs(t_mesh)
          /\ pc' = "tm20"
          /\ err' = err
    /\ UNCHANGED <<loader, calls, png, O3dLocals, t_mesh, t_geo, im, material,
                   CmLocals, MainVars, decoded>>

\* line 20: gfx.geometry_from_trimesh(t_mesh)
Tm_20 ==
    /\ pc = "tm20"
    /\ \E flip \in BOOLEAN : t_geo' = GeometryFromTrimesh(t_mesh, flip)
    /\ pc' = "tm23"
    /\ UNCHANGED <<err, loader, calls, png, O3dLocals, t_mesh, uvs, im, material,
                   CmLocals, MainVars, decoded>>

\* lines 23-24 with a missing file read as an empty image instead of raising
Tm_23_Unchecked ==
    /\ pc = "tm23"
    /\ im' = [kind |-> "ndarray", dtype |-> "float32",
              data |-> IF png = PngAbsent THEN <<>> ELSE ReadTexture(png)]
    /\ pc' = "tm25"
    /\ UNCHANGED <<err, loader, calls, png, O3dLocals, t_mesh, uvs, t_geo, material,
                   CmLocals, MainVars, decoded>>

\* lines 23-24: the sibling .png is read and normalised
Tm_23 ==
    /\ pc = "tm23"
    /\ \/ /\ png = PngAbsent
          /\ Raise("FileNotFoundError", 24)
          /\ UNCHANGED im
       \/ /\ png # PngAbsent
          /\ im' = [kind |-> "ndarray", dtype |-> "float32", data |-> ReadTexture(png)]
          /\ pc' = "tm25"
          /\ err' = err
    /\ UNCHANGED <<loader, calls, png, O3dLocals, t_mesh, uvs, t_geo, material,
                   CmLocals, MainVars, decoded>>

\* lines 25-26: gfx.Texture and gfx.MeshBasicMaterial(map=tex)
Tm_25 ==
    /\ pc = "tm25"
    /\ material' = TrimeshMaterial(im.data)
    /\ pc' = "tm28"
    /\ UNCHANGED <<err, loader, calls, png, O3dLocals, t_mesh, uvs, t_geo, im,
                   CmLocals, MainVars, decoded>>

\* line 28, into line 70: return t_geo, material
Tm_28 ==
    /\ pc = "tm28"
    /\ gfx_geometry' = t_geo
    /\ gfx_material' = material
    /\ t_mesh' = None
    /\ uvs' = None
    /\ t_geo' = None
    /\ im' = None
    /\ material' = None
    /\ pc' = "cm71"
    /\ UNCHANGED <<err, loader, calls, png, O3dLocals, MainVars, decoded>>

\* create_mesh, lines 71-77, and the assignment in main (line 84 or 87)
Cm_71 ==
    /\ pc = "cm71"
    /\ IF loader.name = "open3d"
       THEN /\ o3d_obj' = CreateMesh(gfx_geometry, gfx_material)
            /\ t_obj' = t_obj
            /\ pc' = "main85"
       ELSE /\ t_obj' = CreateMesh(gfx_geometry, gfx_material)
            /\ o3d_obj' = o3d_obj
            /\ pc' = "main88"
    /\ gfx_geometry' = None
    /\ gfx_material' = None
    /\ loader' = None
    /\ UNCHANGED <<err, calls, png, O3dLocals, TmLocals, out, scene, shown, decoded>>

\* line 85: o3d_mesh.world.x += 200
Main_85 ==
    /\ pc = "main85"
    /\ o3d_obj' = [o3d_obj EXCEPT !.x = @ + XOffset]
    /\ pc' = "main87"
    /\ UNCHANGED <<err, loader, calls, png, O3dLocals, TmLocals, CmLocals,
                   t_obj, out, scene, shown, decoded>>

\* line 88: t_mesh.world.x -= 200
Main_88 ==
    /\ pc = "main88"
    /\ t_obj' = [t_obj EXCEPT !.x = @ - XOffset]
    /\ pc' = "main90"
    /\ UNCHANGED <<err, loader, calls, png, O3dLocals, TmLocals, CmLocals,
                   o3d_obj, out, scene, shown, decoded>>

\* lines 90-91: the two texcoords shapes are printed
Main_90 ==
    /\ pc = "main90"
    /\ out' = <<Shape(t_obj.geometry.texcoords), Shape(o3d_obj.geometry.texcoords)>>
    /\ pc' = "main94"
    /\ UNCHANGED <<err, loader, calls, png, O3dLocals, TmLocals, CmLocals,
                   o3d_obj, t_obj, scene, shown, decoded>>

\* lines 94-99: canvas, renderer, scene, axes helper and ambient light
Main_94 ==
    /\ pc = "main94"
    /\ scene' = <<"AxesHelper", "AmbientLight">>
    /\ pc' = "main102"
    /\ UNCHANGED <<err, loader, calls, png, O3dLocals, TmLocals, CmLocals,
                   o3d_obj, t_obj, out, shown, decoded>>

\* line 102: scene.add(o3d_mesh, t_mesh)
Main_102 ==
    /\ pc = "main102"
    /\ scene' = scene \o <<"o3d_mesh", "t_mesh">>
    /\ pc' = "main104"
    /\ UNCHANGED <<err, loader, calls, png, O3dLocals, TmLocals, CmLocals,
                   o3d_obj, t_obj, out, shown, decoded>>

\* lines 104-110: camera, controller, display; disp.show(scene)
Main_104 ==
    /\ pc = "main104"
    /\ shown' = TRUE
    /\ pc' = "done"
    /\ UNCHANGED <<err, loader, calls, png, O3dLocals, TmLocals, CmLocals,
                   o3d_obj, t_obj, out, scene, decoded>>

Next ==
    \/ Main_84 \/ O3d_32 \/ O3d_33 \/ O3d_35 \/ O3d_43 \/ O3d_56 \/ O3d_66
    \/ Main_87 \/ Tm_18 \/ Tm_19 \/ Tm_20 \/ Tm_23 \/ Tm_25 \/ Tm_28
    \/ Cm_71 \/ Main_85 \/ Main_88 \/ Main_90 \/ Main_94 \/ Main_102 \/ Main_104

Spec == Init /\ [][Next]_vars

-----------------------------------------------------------------------------
(* Properties *)

InOpen3dAfterGeometry == pc \in {"o3d56", "o3d66"}

\* C1: in load_from_open3d, the texcoords handed to gfx.Geometry hold, at every
\* position, the pair (u, 1 - v) of the pair (u, v) read from triangle_uvs at
\* that position, and as many pairs as were read; (0.3, 0.8) gives (0.3, 0.2),
\* (0, 0) gives (0, 1) and (1, 1) gives (1, 0).
C1_UVFixUp ==
    InOpen3dAfterGeometry =>
        LET src == o3d_mesh_info.mesh.triangle_uvs
            dst == gfx_geometry.texcoords.data
        IN  /\ Len(dst) = Len(src)
            /\ \A i \in 1..Len(src) :
                  /\ dst[i][1] = src[i][1]
                  /\ dst[i][2] = UVOne - src[i][2]
                  /\ (src[i] = <<3, 8>> => dst[i] = <<3, 2>>)
                  /\ (src[i] = <<0, 0>> => dst[i] = <<0, 10>>)
                  /\ (src[i] = <<10, 10>> => dst[i] = <<10, 0>>)

C1_Witness ==
    /\ pc = "o3d66"
    /\ o3d_mesh_info.mesh.triangle_uvs = << <<3, 8>>, <<0, 0>>, <<10, 10>> >>
    /\ gfx_geometry.texcoords.data = << <<3, 2>>, <<0, 10>>, <<10, 0>> >>

\* C3: in load_from_trimesh, when the sibling .png does not exist the call
\* returns nothing: no material is built and main never receives the trimesh
\* object; once the geometry is decoded the call ends in FileNotFoundError.
C3_MissingTexture ==
    png = PngAbsent =>
        /\ material = None
        /\ t_obj = None
        /\ (calls.trimesh > 0 => pc \in {"tm18", "tm19", "tm20", "tm23", "raised"})
        /\ (pc = "raised" /\ t_geo # None => err = Exception("FileNotFoundError", 24))

C3_Witness ==
    /\ png = PngAbsent
    /\ pc = "raised"
    /\ t_geo # None
    /\ err = Exception("FileNotFoundError", 24)

EmptyModel(model) == Len(model.meshes) = 0 \/ Len(model.materials) = 0

\* C4: in load_from_open3d, a container with zero meshes or zero materials makes
\* the call fail with IndexError (the code's EmptyModel, none of the other
\* error kinds) before any geometry or material is constructed, and nothing is
\* returned.
C4_EmptyModel ==
    (o3d_model # None /\ EmptyModel(o3d_model)) =>
        /\ gfx_geometry = None
        /\ gfx_material = None
        /\ o3d_obj = None
        /\ pc \in {"o3d33", "o3d35", "raised"}
        /\ (pc = "raised" =>
               /\ err.type = "IndexError"
               /\ err.type \notin {"ValueError", "FileNotFoundError", "AttributeError"})

C4_Witness ==
    /\ pc = "raised"
    /\ o3d_model # None
    /\ Len(o3d_model.meshes) > 0
    /\ Len(o3d_model.materials) = 0
    /\ err = Exception("IndexError", 35)

\* C5: a failed load leaves main at once (the error is set only when main has
\* ended), no loader is called twice, nothing runs after the failure, and the
\* scene is shown only when both loads succeeded and both meshes were added.
C5_NoPartialScene ==
    /\ calls.open3d <= 1
    /\ calls.trimesh <= 1
    /\ (err # None <=> pc = "raised")
    /\ (pc = "raised" => ~shown /\ scene = <<>> /\ ~ENABLED Next)
    /\ (shown =>
           /\ o3d_obj # None
           /\ t_obj # None
           /\ {"o3d_mesh", "t_mesh"} \subseteq Range(scene))

C5_Witness ==
    /\ pc = "raised"
    /\ o3d_obj # None
    /\ calls.trimesh = 1
    /\ ~shown

IndicesInRange(g) ==
    \A i \in 1..Len(g.indices.data) :
        \A j \in 1..3 :
            /\ 0 <= g.indices.data[i][j]
            /\ g.indices.data[i][j] < Len(g.positions.data)

\* the geometries a loader has returned: create_mesh's, until it wraps it, and
\* those of the two meshes main holds
ReturnedFromOpen3d ==
    (IF pc = "cm71" /\ loader.name = "open3d" THEN {gfx_geometry} ELSE {})
    \cup (IF o3d_obj # None THEN {o3d_obj.geometry} ELSE {})

ReturnedFromTrimesh ==
    (IF pc = "cm71" /\ loader.name = "trimesh" THEN {gfx_geometry} ELSE {})
    \cup (IF t_obj # None THEN {t_obj.geometry} ELSE {})

\* C6: every vertex id of every triangle of a geometry returned by either
\* loader is at least 0 and below the number of positions.
C6_IndicesInRange ==
    \A g \in ReturnedFromOpen3d \cup ReturnedFromTrimesh : IndicesInRange(g)

C6_Witness ==
    /\ o3d_obj # None
    /\ t_obj # None
    /\ Len(o3d_obj.geometry.indices.data) > 0
    /\ Len(t_obj.geometry.indices.data) > 0

\* C7: every geometry returned by load_from_open3d has as many normals as
\* positions.
C7_NormalsMatchPositions ==
    \A g \in ReturnedFromOpen3d : Len(g.normals.data) = Len(g.positions.data)

\* C8: the texcoords of a geometry returned by load_from_trimesh are as many as
\* its positions, and those of a geometry returned by load_from_open3d are three
\* times as many as its triangles.
C8_TexcoordLayout ==
    /\ \A g \in ReturnedFromTrimesh : Len(g.texcoords.data) = Len(g.positions.data)
    /\ \A g \in ReturnedFromOpen3d : Len(g.texcoords.data) = 3 * Len(g.indices.data)

BothLoaded == o3d_obj # None /\ t_obj # None

SameAsset == Range(decoded.open3d.data) = Range(decoded.trimesh.data)

Agreeing(model) ==
    LET first == model.meshes[1]
        idx   == first.material_idx
    IN  {TriangleMeshModel(<<first>> \o rest, mats) :
            rest \in OtherMeshArrays,
            mats \in {m \in MaterialArrays :
                         /\ idx < Len(m)
                         /\ m[idx + 1] = model.materials[idx + 1]}}

\* C10: what load_from_open3d returns is what it returns for every container
\* with the same mesh at index 0 and the same material at that mesh's material
\* index, whatever the other meshes and materials are; none of them raises.
C10_OnlyFirstMesh ==
    pc = "o3d66" =>
        \A other \in Agreeing(o3d_model) :
            LoadFromOpen3d(other) = LoaderResult(gfx_geometry, gfx_material)

C10_Witness ==
    /\ pc = "o3d66"
    /\ Len(o3d_model.meshes) = MaxMeshes
    /\ Len(o3d_model.materials) = MaxMaterials
    /\ o3d_model.meshes[2].material_idx >= Len(o3d_model.materials)
    /\ o3d_model.materials[1] # o3d_model.materials[2]
    /\ Cardinality(Agreeing(o3d_model)) > 1

====
